---- MODULE Spec2Model ----
(***************************************************************************)
(* betterhist: a PTY proxy that splits a shell session into (user input,   *)
(* command output) epochs, renders them and serves them over a local HTTP  *)
(* history service.                                                        *)
(*                                                                         *)
(* The module models four parts of the program:                            *)
(*   - TermSplit, the two-state stream splitter      (termsplit.py)        *)
(*   - Subshell.man_in_the_middle, the byte proxy    (subshell.py)         *)
(*   - ListManagerEndpoint / verify_auth, the store  (listsrv.py)          *)
(*   - subshell(), the session main loop             (cli.py)              *)
(* Each part has its own specification over the shared variables.          *)
(***************************************************************************)
EXTENDS Integers, Sequences, FiniteSets, TLC

(***************************************************************************)
(* Bounds of the model.                                                    *)
(***************************************************************************)
\* chunks delivered per direction (stdin, master)
MaxChunks == 2
\* rows the table items can hold
MaxItems == 3
\* chunks read from both fds together by the proxy run alone
MaxProxyChunks == 3
\* resizes of the parent terminal during a session
MaxResizes == 1
\* chunks read from both fds together in a whole session
MaxSessionChunks == 2

(***************************************************************************)
(* Bytes and chunks.  A chunk is what one os.read returns: a non-empty     *)
(* byte string.  Two byte values are told apart: carriage return and any   *)
(* other byte.                                                             *)
(***************************************************************************)
CR == 13
OtherByte == 120
Chunks == { <<OtherByte>>, <<OtherByte, CR>> }

\* Optional[bytes]: None, or a (possibly empty) byte string
None == <<>>
Some(b) == <<b>>
IsNone(o) == o = <<>>

RECURSIVE Join(_)
\* b''.join(list of bytes)
Join(chunks) ==
    IF chunks = <<>> THEN <<>> ELSE Head(chunks) \o Join(Tail(chunks))

\* s is an initial part of t
IsPrefix(s, t) == Len(s) <= Len(t) /\ SubSeq(t, 1, Len(s)) = s

\* b'\r' in data
HasCR(data) == \E i \in DOMAIN data : data[i] = CR

(***************************************************************************)
(* Variables.                                                              *)
(***************************************************************************)
VARIABLES
    termsplit,      \* the TermSplit object: state, buffer, queue, wait_for_user_buffer
    foreground,     \* foreground process group of the PTY: "shell" or "child"
    observed,       \* history: chunks passed to the observers, per source
    emitted,        \* history: tuples put on termsplit.queue, with the state they were put in
    proxy,          \* Subshell.man_in_the_middle: its locals, the fds, the terminal, the child
    main,           \* cli.subshell: the session coroutine's position and locals
    listsrv,        \* ListManagerServer: whether it accepts connections, its routes
    environ,        \* os.environ: BETTERHIST_AUTH
    items,          \* the rows of table items, in id order
    http,           \* the HTTP clients: the request in flight, the last reply
    appended        \* history: the snapshots add_item inserted, in order

splitVars == << termsplit, foreground, observed, emitted >>
storeVars == << listsrv, environ, items, http, appended >>
vars == << termsplit, foreground, observed, emitted, proxy, main, listsrv, environ, items, http,
          appended >>

(***************************************************************************)
(* TermSplit (termsplit.py).  The methods are operators from the object    *)
(* before the call to the object after it; fgp is what the TIOCGPGRP ioctl *)
(* returns during the call.                                                *)
(***************************************************************************)
WAIT_FOR_USER == 0
WAIT_FOR_COMMAND == 1

\* the shell's pid, and the pid of a command it runs
ShellPid == "shell"
ChildPid == "child"

TermSplitInit ==
    [ pid |-> ShellPid,
      state |-> WAIT_FOR_USER,
      buffer |-> <<>>,
      queue |-> <<>>,
      wait_for_user_buffer |-> None ]

get_foreground_pid(fgp) == fgp

transition_command_to_user(ts) ==
    IF ts.state = WAIT_FOR_COMMAND
    THEN [ ts EXCEPT !.state = WAIT_FOR_USER,
                     !.buffer = <<>>,
                     !.queue = Append(@, << ts.wait_for_user_buffer, Join(ts.buffer) >>),
                     !.wait_for_user_buffer = None ]
    ELSE ts

edge_trigger_command_to_user(ts, fgp) ==
    IF ts.state = WAIT_FOR_COMMAND /\ get_foreground_pid(fgp) = ts.pid
    THEN transition_command_to_user(ts)
    ELSE ts

\* a transition that forgets to keep the user epoch
transition_user_to_command_NoPending(ts) ==
    IF ts.state = WAIT_FOR_USER
    THEN [ ts EXCEPT !.state = WAIT_FOR_COMMAND,
                     !.buffer = <<>> ]
    ELSE ts

transition_user_to_command(ts) ==
    IF ts.state = WAIT_FOR_USER
    THEN [ ts EXCEPT !.state = WAIT_FOR_COMMAND,
                     !.wait_for_user_buffer = Some(Join(ts.buffer)),
                     !.buffer = <<>> ]
    ELSE ts

edge_trigger_user_to_command(ts, fgp) ==
    IF ts.state = WAIT_FOR_USER /\ get_foreground_pid(fgp) # ts.pid
    THEN transition_user_to_command(ts)
    ELSE ts

\* an on_master_data that keeps the output only while waiting for the user
on_master_data_DropsInCommand(ts, data, fgp) ==
    IF ts.state = WAIT_FOR_COMMAND THEN ts
    ELSE [ ts EXCEPT !.buffer = Append(@, data) ]

on_master_data(ts, data, fgp) ==
    LET ts1 == [ ts EXCEPT !.buffer = Append(@, data) ]
    IN  IF ts1.state = WAIT_FOR_COMMAND
        THEN edge_trigger_user_to_command(ts1, fgp)
        ELSE ts1

on_stdin_data(ts, data, fgp) ==
    LET ts1 == IF ts.state = WAIT_FOR_COMMAND
               THEN edge_trigger_command_to_user(ts, fgp)
               ELSE ts
    IN  IF ts1.state = WAIT_FOR_USER
        THEN IF HasCR(data)
             THEN transition_user_to_command(ts1)
             ELSE edge_trigger_user_to_command(ts1, fgp)
        ELSE ts1

\* an on_idle that does not look at the foreground process group
on_idle_IgnoresForeground(ts, fgp) == transition_command_to_user(ts)

on_idle(ts, fgp) ==
    IF ts.state = WAIT_FOR_COMMAND
    THEN edge_trigger_command_to_user(ts, fgp)
    ELSE ts

\* the tuples a call put on the queue (calls only append), tagged with the
\* state the splitter was in when the call began and with the size the
\* terminal had at that moment
NewTuples(ts, ts2) ==
    [ i \in 1 .. (Len(ts2.queue) - Len(ts.queue)) |->
        [ U |-> ts2.queue[Len(ts.queue) + i][1],
          C |-> ts2.queue[Len(ts.queue) + i][2],
          from |-> ts.state,
          geom |-> proxy.winsize ] ]

\* the splitter's part of a step that calls one of its methods
SplitterCall(ts2) ==
    /\ termsplit' = ts2
    /\ emitted' = emitted \o NewTuples(termsplit, ts2)

(***************************************************************************)
(* The snapshot store and its HTTP frontend (listsrv.py), and the start of *)
(* the session that brings them up (cli.py).                               *)
(***************************************************************************)
\* a str, and a list of str: what pydantic tells apart in a Snapshot field
Str(s) == [ type |-> "str", val |-> s ]
List(l) == [ type |-> "list", val |-> l ]

\* Snapshot(...): pydantic accepts the views only when they are str
SnapshotValid(user_view, command_view) ==
    user_view.type = "str" /\ command_view.type = "str"

\* timestamp is a REAL column: a value (never NULL, the model requires a float)
MkSnapshot(user_view, command_view) ==
    [ timestamp |-> Some(1), columns |-> 80, lines |-> 24,
      user_view |-> user_view, command_view |-> command_view ]

\* the snapshots a client posts: a str is a sequence of characters
PostedSnapshots ==
    { MkSnapshot(Str(<< "l", "s" >>), Str(<< "g", "r" >>)),
      MkSnapshot(Str(<< "L", "S" >>), Str(<< "g", "r" >>)),
      MkSnapshot(Str(<< "g", "r" >>), Str(<< "l", "s" >>)) }

\* the patterns a client searches for
Patterns == { << "l", "s" >>, << "_", "s" >> }

SearchLocations == { "user_view", "command_view", "both" }

\* limit: int = Query(10)
DefaultLimit == 10
Limits == { -1, 1, DefaultLimit }

Indexes == (0 - (MaxItems + 1)) .. (MaxItems + 1)

\* uuid.uuid4().hex
SessionToken == "token"
Headers == { None, Some(SessionToken), Some("other") }

\* a check that the header is present, not that it is the token
verify_auth_AnyHeader(x_betterhist_auth, auth_token) ==
    ~( (IsNone(auth_token) \/ auth_token = Some(""))
       \/ IsNone(x_betterhist_auth) )

\* verify_auth: TRUE when the request passes, FALSE when it raises 401
verify_auth(x_betterhist_auth, auth_token) ==
    ~( (IsNone(auth_token) \/ auth_token = Some(""))
       \/ x_betterhist_auth # auth_token )

\* INSERT INTO items (...) VALUES (...): id is the next rowid
InsertRow(rows, snapshot) ==
    Append(rows, [ id |-> IF rows = <<>> THEN 1 ELSE rows[Len(rows)].id + 1,
                   snapshot |-> snapshot ])

\* the largest offset instead of the number of rows
CountRows_OffByOne(rows) == Len(rows) - 1

\* SELECT COUNT(*) FROM items
CountRows(rows) == Len(rows)

\* the offset of a negative index taken without the - 1
SelectRow_OffByOne(rows, index) ==
    IF index >= 0
    THEN IF index + 1 <= Len(rows) THEN Some(rows[index + 1]) ELSE None
    ELSE LET offset == 0 - index
         IN  IF offset + 1 <= Len(rows) THEN Some(rows[Len(rows) - offset]) ELSE None

\* SELECT ... ORDER BY id ASC LIMIT 1 OFFSET index, or for a negative index
\* ORDER BY id DESC LIMIT 1 OFFSET -index - 1; then fetchone()
SelectRow(rows, index) ==
    IF index >= 0
    THEN IF index + 1 <= Len(rows) THEN Some(rows[index + 1]) ELSE None
    ELSE LET offset == 0 - index - 1
         IN  IF offset + 1 <= Len(rows) THEN Some(rows[Len(rows) - offset]) ELSE None

\* SQLite folds the case of ASCII letters in LIKE
Fold(c) ==
    CASE c = "L" -> "l"
      [] c = "S" -> "s"
      [] c = "G" -> "g"
      [] c = "R" -> "r"
      [] OTHER -> c

RECURSIVE Like(_, _)
\* str LIKE pat: % is any run of characters, _ any one character
Like(pat, str) ==
    IF pat = <<>> THEN str = <<>>
    ELSE IF Head(pat) = "%"
         THEN Like(Tail(pat), str) \/ (str # <<>> /\ Like(pat, Tail(str)))
         ELSE /\ str # <<>>
              /\ (Head(pat) = "_" \/ Fold(Head(pat)) = Fold(Head(str)))
              /\ Like(Tail(pat), Tail(str))

\* the WHERE clause of search_items, with search_pattern = f"%{pattern}%"
Where(row, pattern, search_in) ==
    LET search_pattern == << "%" >> \o pattern \o << "%" >>
        u == Like(search_pattern, row.snapshot.user_view.val)
        c == Like(search_pattern, row.snapshot.command_view.val)
    IN  CASE search_in = "user_view" -> u
          [] search_in = "command_view" -> c
          [] OTHER -> u \/ c

Reverse(seq) == [ i \in DOMAIN seq |-> seq[Len(seq) + 1 - i] ]

\* SELECT ... WHERE ... ORDER BY id DESC LIMIT limit; a negative LIMIT is no limit
SearchRows(rows, pattern, search_in, limit) ==
    LET hits == Reverse(SelectSeq(rows, LAMBDA row : Where(row, pattern, search_in)))
    IN  IF limit < 0 \/ limit >= Len(hits) THEN hits ELSE SubSeq(hits, 1, limit)

Clients == { "c1" }

NoReply == [ code |-> 0 ]

\* own is history: the number of rows right after the request's own INSERT
HttpIdle ==
    [ st |-> "idle", op |-> "none", hdr |-> None, arg |-> <<>>, reply |-> NoReply, own |-> 0 ]

\* the positions of a request inside a handler (at its awaits)
InHandler == { "add_insert", "add_count", "get_select", "get_count", "search_select" }

StoreInit ==
    /\ listsrv = [ phase |-> "off", routes |-> FALSE ]
    /\ environ = [ BETTERHIST_AUTH |-> None ]
    /\ items = <<>>
    /\ http = [ c \in Clients |-> HttpIdle ]
    /\ appended = <<>>

\* (geometry: columns, lines as process_user_command_tuple read them)
\* cli.subshell before its first statement: dequeue_task, status are the
\* coroutine's locals (status unbound), cur the tuple being processed, ret
\* and exc how the coroutine ended, cancelled whether asyncio.run has
\* cancelled the tasks left over
MainInit ==
    [ pc |-> "start",
      dequeue_task |-> [ st |-> "none", res |-> None ],
      status |-> None,
      cur |-> None,
      ret |-> None,
      exc |-> "none",
      cancelled |-> FALSE,
      geometry |-> None ]

\* await listsrv.start(): the server task runs and has bound its port
ServerStarts ==
    /\ main.pc = "start"
    /\ main' = [ main EXCEPT !.pc = "started" ]
    /\ listsrv' = [ listsrv EXCEPT !.phase = "up" ]
    /\ UNCHANGED << environ, items, http, appended >>

\* os.environ["BETTERHIST_AUTH"] = uuid4().hex, then add_endpoint up to its
\* first await (endpoint.startup: aiosqlite.connect)
MintToken ==
    /\ main.pc = "started"
    /\ main' = [ main EXCEPT !.pc = "add_endpoint" ]
    /\ environ' = [ environ EXCEPT !.BETTERHIST_AUTH = Some(SessionToken) ]
    /\ UNCHANGED << listsrv, items, http, appended >>

\* endpoint.startup: the table is created and the three routes registered
EndpointReady ==
    /\ main.pc = "add_endpoint"
    /\ main' = [ main EXCEPT !.pc = "ready" ]
    /\ listsrv' = [ listsrv EXCEPT !.routes = TRUE ]
    /\ UNCHANGED << environ, items, http, appended >>

\* await listsrv.shutdown(): the server task is cancelled with its requests
ShutdownServer(main2) ==
    /\ main' = main2
    /\ listsrv' = [ listsrv EXCEPT !.phase = "down" ]
    /\ http' = [ c \in DOMAIN http |->
                   IF http[c].st \in InHandler THEN [ http[c] EXCEPT !.st = "dropped" ]
                   ELSE http[c] ]
    /\ UNCHANGED << environ, items, appended >>

\* a reply: len is the number of rows when it was made, routed whether the
\* route existed, handled whether a handler ran
Reply(code, body, routed, handled) ==
    [ code |-> code, body |-> body, routed |-> routed, handled |-> handled,
      len |-> Len(items) ]

Finish(c, reply) ==
    http' = [ http EXCEPT ![c].st = "replied", ![c].reply = reply ]

\* a request arrives and is served up to its handler's first await: without
\* a route the router answers 404, verify_auth answers 401 or lets it pass
Serve(c, op, hdr, arg) ==
    /\ listsrv.phase = "up"
    /\ http[c].st \in { "idle", "replied" }
    /\ LET r == [ st |-> "sent", op |-> op, hdr |-> hdr, arg |-> arg, reply |-> NoReply,
                  own |-> 0 ]
       IN  IF ~listsrv.routes
           THEN http' = [ http EXCEPT ![c] =
                    [ r EXCEPT !.st = "replied",
                               !.reply = Reply(404, "Not Found", FALSE, FALSE) ] ]
           ELSE IF ~verify_auth(hdr, environ.BETTERHIST_AUTH)
           THEN http' = [ http EXCEPT ![c] =
                    [ r EXCEPT !.st = "replied",
                               !.reply = Reply(401, "Invalid or missing authentication token",
                                               TRUE, FALSE) ] ]
           ELSE http' = [ http EXCEPT ![c] =
                    [ r EXCEPT !.st = CASE op = "add" -> "add_insert"
                                        [] op = "get" -> "get_select"
                                        [] OTHER -> "search_select" ] ]
    /\ UNCHANGED << listsrv, environ, items, appended, main >>

\* a request that arrives while no other request is inside a handler
Request(c, op, hdr, arg) ==
    /\ \A d \in DOMAIN http : http[d].st \notin InHandler
    /\ Serve(c, op, hdr, arg)

PostItem(c) ==
    /\ Len(items) < MaxItems
    /\ \E hdr \in Headers, snapshot \in PostedSnapshots : Request(c, "add", hdr, snapshot)

GetItem(c) ==
    \E hdr \in Headers, index \in Indexes : Request(c, "get", hdr, index)

GetSearch(c) ==
    \E hdr \in Headers, pattern \in Patterns, search_in \in SearchLocations, limit \in Limits :
       Request(c, "search", hdr, [ pattern |-> pattern, search_in |-> search_in, limit |-> limit ])

\* add_item: INSERT and commit
AddInsert(c) ==
    /\ http[c].st = "add_insert"
    /\ items' = InsertRow(items, http[c].arg)
    /\ appended' = Append(appended, http[c].arg)
    /\ http' = [ http EXCEPT ![c].st = "add_count", ![c].own = Len(items) + 1 ]
    /\ UNCHANGED << listsrv, environ, main >>

\* add_item: SELECT COUNT(*) and the reply
AddCount(c) ==
    /\ http[c].st = "add_count"
    /\ Finish(c, Reply(200, [ list_length |-> CountRows(items) ], TRUE, TRUE))
    /\ UNCHANGED << listsrv, environ, items, appended, main >>

\* get_item: the SELECT and fetchone; a row is the reply
GetSelect(c) ==
    /\ http[c].st = "get_select"
    /\ LET result == SelectRow(items, http[c].arg)
       IN  IF ~IsNone(result) /\ ~IsNone(result[1].snapshot.timestamp)
           THEN Finish(c, Reply(200, [ snapshot |-> result[1].snapshot, index |-> http[c].arg ],
                                TRUE, TRUE))
           ELSE http' = [ http EXCEPT ![c].st = "get_count" ]
    /\ UNCHANGED << listsrv, environ, items, appended, main >>

\* get_item: no row: SELECT COUNT(*) and 404 with the length
GetCount(c) ==
    /\ http[c].st = "get_count"
    /\ Finish(c, Reply(404, [ length |-> CountRows(items) ], TRUE, TRUE))
    /\ UNCHANGED << listsrv, environ, items, appended, main >>

\* search_items: the SELECT, fetchall and the formatted results
SearchSelect(c) ==
    /\ http[c].st = "search_select"
    /\ LET a == http[c].arg
           results == SearchRows(items, a.pattern, a.search_in, a.limit)
       IN  Finish(c, Reply(200, [ results |-> results ], TRUE, TRUE))
    /\ UNCHANGED << listsrv, environ, items, appended, main >>

(***************************************************************************)
(* Subshell.man_in_the_middle (subshell.py).  The variable proxy holds the *)
(* coroutine's position and locals together with what it acts on: the two  *)
(* fds' readers, queues and tasks, the parent terminal's attributes and    *)
(* the child process.  The code between two suspension points is one       *)
(* operator from the record before to the record after.                    *)
(***************************************************************************)
Fds == { "stdin", "master" }

\* terminal attributes the parent stdin can have before the proxy starts
TermiosModes == { "cooked", "cbreak" }

\* what an observer callback can do: return True, return False, raise
ObserverOutcomes == { "true", "false", "raise" }

\* the sizes (columns, lines) the parent terminal can have; winsize is the
\* parent terminal's size, pty_winsize the one set on the master by on_resize
Geometries == { [ columns |-> 80, lines |-> 24 ], [ columns |-> 100, lines |-> 30 ] }
InitialGeometry == [ columns |-> 80, lines |-> 24 ]

ProxyInit(attrs) ==
    [ pc |-> "start",
      termios |-> attrs,
      termios_before |-> attrs,
      mode |-> attrs,
      result |-> [ pid |-> 0, status |-> 0 ],
      ret |-> None,
      child |-> [ st |-> "running", status |-> 0 ],
      task |-> [ fd \in Fds |-> [ st |-> "none", res |-> None ] ],
      readers |-> {},
      queue |-> [ fd \in Fds |-> <<>> ],
      received |-> [ fd \in Fds |-> <<>> ],
      written |-> [ fd \in Fds |-> <<>> ],
      delivered |-> [ fd \in Fds |-> <<>> ],
      exit_by |-> "none",
      obs |-> None,
      eof |-> {},
      stop |-> None,
      winsize |-> InitialGeometry,
      pty_winsize |-> InitialGeometry,
      resizes |-> 0 ]

\* tty.setraw executed before tty.tcgetattr: the saved mode is the raw one
SaveAndSetRaw_SavedAfterRaw(p) ==
    [ p EXCEPT !.mode = "raw", !.termios = "raw" ]

\* mode = tty.tcgetattr(stdin_fd); tty.setraw(stdin_fd)
SaveAndSetRaw(p) ==
    [ p EXCEPT !.mode = p.termios, !.termios = "raw" ]

\* tty.tcsetattr(stdin_fd, TCSAFLUSH, mode)
tcsetattr(p) == [ p EXCEPT !.termios = p.mode ]

\* the outer finally, then the coroutine ends with a return value
Return(p) ==
    [ tcsetattr(p) EXCEPT !.pc = "done", !.ret = Some(p.result.status) ]

\* the inner finally after its awaits: readers removed, termios restored,
\* then the child is waited for unless the poll already reaped it
Finally2(p) ==
    LET p1 == tcsetattr([ p EXCEPT !.readers = {} ])
    IN  IF p1.result.pid = 0
        THEN [ p1 EXCEPT !.pc = "reap" ]
        ELSE Return(p1)

\* the inner finally: both tasks are cancelled and awaited; awaiting
\* suspends only when a task was still pending
Finally(p, why) ==
    LET p1 == [ p EXCEPT
                  !.exit_by = why,
                  !.task = [ fd \in Fds |->
                               IF p.task[fd].st = "pending"
                               THEN [ st |-> "cancelled", res |-> None ]
                               ELSE p.task[fd] ] ]
    IN  IF \E fd \in Fds : p.task[fd].st = "pending"
        THEN [ p1 EXCEPT !.pc = "cleanup_wait" ]
        ELSE Finally2(p1)

\* while (result := os.waitpid(pid, WNOHANG))[0] == 0: await asyncio.wait(...)
Poll(p) ==
    IF p.child.st = "exited"
    THEN Finally([ p EXCEPT !.result = [ pid |-> 1, status |-> p.child.status ],
                            !.child.st = "reaped" ], "child_exit")
    ELSE [ p EXCEPT !.result = [ pid |-> 0, status |-> 0 ], !.pc = "wait" ]

\* history: at the first event after which the loop is to stop (observer
\* returned False, short or failed write, EOF) stop keeps how many chunks
\* have been observed and handed to os.write; at an EOF the chunks read
\* before it count as if they had been (early: they may still follow)
MarkStop(p, early) ==
    LET read == Len(p.received["stdin"]) + Len(p.received["master"])
    IN  IF IsNone(p.stop)
        THEN [ p EXCEPT !.stop = Some(
                 IF early
                 THEN [ obs |-> read, wr |-> read ]
                 ELSE [ obs |-> Len(observed["stdin"]) + Len(observed["master"])
                                  + (IF IsNone(p.obs) THEN 0 ELSE 1),
                        wr |-> Len(p.written["stdin"]) + Len(p.written["master"]) ]) ]
        ELSE p

\* an observer that is not called
Observe_Skipped(p, fd, data) == p

\* await on_stdin_data(data) / await on_master_data(data)
Observe(p, fd, data) == [ p EXCEPT !.obs = << fd, data >> ]

\* if task.done(): data = task.result(); if data is None or not await
\* observer(data) or not await write_to_fd(...): return
Check(p, fd, out, orelse) ==
    IF p.task[fd].st = "done"
    THEN LET data == p.task[fd].res
         IN  IF IsNone(data)
             THEN Finally(p, "read_error")
             ELSE LET p1 == Observe(p, fd, data)
                  IN  CASE out = "true" -> [ p1 EXCEPT !.pc = "write_" \o fd ]
                        [] out = "false" -> Finally(MarkStop(p1, FALSE), "observer_false")
                        [] OTHER -> Finally(p1, "observer_raise")
    ELSE orelse

CheckMaster(p, out) == Check(p, "master", out, Poll(p))

CheckStdin(p, out) == Check(p, "stdin", out, CheckMaster(p, out))

\* os.write(fd, data) in the executor: n bytes are accepted (n = 0: OSError)
os_write(p, fd, n) ==
    LET data == p.task[fd].res
    IN  [ p EXCEPT !.written[fd] = Append(@, << data, n > 0 >>),
                   !.delivered[fd] = @ \o SubSeq(data, 1, n) ]

\* after write_to_fd: add_reader_once again and a new task for the queue
Rearm(p, fd) ==
    [ p EXCEPT !.readers = @ \cup { fd },
               !.task[fd] = [ st |-> "pending", res |-> None ] ]

\* the code that follows the write of a chunk of fd
AfterWrite(p, fd, n, rearm_ok, out) ==
    LET p0 == os_write(p, fd, n)
        p1 == IF n < Len(p.task[fd].res) THEN MarkStop(p0, FALSE) ELSE p0
    IN  IF n = 0 THEN Finally(p1, "write_failed")
        ELSE IF ~rearm_ok THEN Finally(p1, "add_reader_failed")
        ELSE IF fd = "stdin" THEN CheckMaster(Rearm(p1, fd), out)
        ELSE Poll(Rearm(p1, fd))

\* entry: save termios, raw mode, the two tasks and readers, first poll
EnterBlock(p) ==
    Poll([ SaveAndSetRaw(p) EXCEPT
             !.task = [ fd \in Fds |-> [ st |-> "pending", res |-> None ] ],
             !.readers = Fds ])

\* A step of the proxy to the record r.  The observer call r.obs, if any,
\* is recorded; with split it is the TermSplit method of cli.py.
ProxyStep(r, split) ==
    /\ proxy' = [ r EXCEPT !.obs = None ]
    /\ IF IsNone(r.obs)
       THEN UNCHANGED << observed, termsplit, emitted >>
       ELSE /\ observed' = [ observed EXCEPT ![r.obs[1]] = Append(@, r.obs[2]) ]
            /\ IF split
               THEN SplitterCall(IF r.obs[1] = "stdin"
                                 THEN on_stdin_data(termsplit, r.obs[2], foreground)
                                 ELSE on_master_data(termsplit, r.obs[2], foreground))
               ELSE UNCHANGED << termsplit, emitted >>

\* a step of the proxy's surroundings, which calls no observer
EnvStep(r) ==
    /\ proxy' = r
    /\ UNCHANGED << observed, termsplit, emitted >>

Enter(split) ==
    /\ proxy.pc = "start"
    /\ ProxyStep(EnterBlock(proxy), split)

\* asyncio.wait returns: a task is done, or the 1 s timeout passed
WaitReturns(outs, split) ==
    /\ proxy.pc = "wait"
    /\ \E out \in outs : ProxyStep(CheckStdin(proxy, out), split)

\* write_to_fd returns
WriteReturns(fd, outs, split) ==
    /\ proxy.pc = "write_" \o fd
    /\ \E n \in 0 .. Len(proxy.task[fd].res), rearm_ok \in BOOLEAN, out \in outs :
         ProxyStep(AfterWrite(proxy, fd, n, rearm_ok, out), split)

\* the cancelled tasks have been awaited
CleanupResumes ==
    /\ proxy.pc = "cleanup_wait"
    /\ EnvStep(Finally2(proxy))

\* the blocking os.waitpid(pid, 0) in the executor returns
ReapReturns ==
    /\ proxy.pc = "reap"
    /\ proxy.child.st = "exited"
    /\ EnvStep(Return([ proxy EXCEPT
                          !.result = [ pid |-> 1, status |-> proxy.child.status ],
                          !.child.st = "reaped" ]))

\* the task running man_in_the_middle is cancelled while suspended (at
\* "await task" of the inner finally the CancelledError is caught and the
\* cleanup goes on as in CleanupResumes)
CancelProxy ==
    \/ /\ proxy.pc = "wait"
       /\ EnvStep(Finally(proxy, "cancel"))
    \/ /\ proxy.pc \in { "write_stdin", "write_master" }
       /\ LET fd == IF proxy.pc = "write_stdin" THEN "stdin" ELSE "master"
          IN  \E n \in 0 .. Len(proxy.task[fd].res) :
                EnvStep(Finally([ os_write(proxy, fd, n) EXCEPT
                                    !.written[fd][Len(proxy.written[fd]) + 1][2] = FALSE ],
                                "cancel"))
    \/ /\ proxy.pc = "reap"
       /\ EnvStep([ tcsetattr(proxy) EXCEPT !.pc = "cancelled", !.exit_by = "cancel" ])

\* ready(fd, queue) called by the event loop: os.read returned a chunk
Ready(fd) ==
    /\ fd \in proxy.readers
    /\ fd \notin proxy.eof
    /\ Len(proxy.received[fd]) < MaxChunks
    /\ \E data \in Chunks :
         EnvStep([ proxy EXCEPT !.queue[fd] = Append(@, data),
                                !.received[fd] = Append(@, data),
                                !.readers = @ \ { fd } ])

\* ready(fd, queue): os.read raised OSError
ReadFails(fd) ==
    /\ fd \in proxy.readers
    /\ EnvStep([ proxy EXCEPT !.queue[fd] = Append(@, None),
                              !.readers = @ \ { fd } ])

\* ready(fd, queue): os.read returned b"" (end of file, which lasts): False
\* is returned, nothing is queued and the reader stays registered
ReadEOF(fd) ==
    /\ fd \in proxy.readers
    /\ fd \notin proxy.eof
    /\ EnvStep(MarkStop([ proxy EXCEPT !.eof = @ \cup { fd } ], TRUE))

\* the task of queue.get() takes the item and is done
TaskWakes(fd) ==
    /\ proxy.task[fd].st = "pending"
    /\ proxy.queue[fd] # <<>>
    /\ EnvStep([ proxy EXCEPT !.task[fd] = [ st |-> "done", res |-> Head(proxy.queue[fd]) ],
                              !.queue[fd] = Tail(@) ])

\* the shell exits
ChildExits ==
    /\ proxy.pc # "start"
    /\ proxy.child.st = "running"
    /\ \E status \in { 0, 1 } :
         EnvStep([ proxy EXCEPT !.child = [ st |-> "exited", status |-> status ] ])

(***************************************************************************)
(* SpecProxy: man_in_the_middle alone, with arbitrary observers.           *)
(***************************************************************************)
InitProxy ==
    /\ termsplit = TermSplitInit
    /\ foreground = ShellPid
    /\ observed = [ fd \in Fds |-> <<>> ]
    /\ emitted = <<>>
    /\ \E attrs \in TermiosModes : proxy = ProxyInit(attrs)
    /\ main = MainInit
    /\ StoreInit

NextProxy ==
    \/ /\ Enter(FALSE)
       /\ UNCHANGED << foreground, main, storeVars >>
    \/ /\ WaitReturns(ObserverOutcomes, FALSE)
       /\ UNCHANGED << foreground, main, storeVars >>
    \/ /\ \E fd \in Fds : WriteReturns(fd, ObserverOutcomes, FALSE)
       /\ UNCHANGED << foreground, main, storeVars >>
    \/ /\ CleanupResumes
       /\ UNCHANGED << foreground, main, storeVars >>
    \/ /\ ReapReturns
       /\ UNCHANGED << foreground, main, storeVars >>
    \/ /\ CancelProxy
       /\ UNCHANGED << foreground, main, storeVars >>
    \/ /\ Len(proxy.received["stdin"]) + Len(proxy.received["master"]) < MaxProxyChunks
       /\ \E fd \in Fds : Ready(fd)
       /\ UNCHANGED << foreground, main, storeVars >>
    \/ /\ \E fd \in Fds : ReadFails(fd)
       /\ UNCHANGED << foreground, main, storeVars >>
    \/ /\ \E fd \in Fds : ReadEOF(fd)
       /\ UNCHANGED << foreground, main, storeVars >>
    \/ /\ \E fd \in Fds : TaskWakes(fd)
       /\ UNCHANGED << foreground, main, storeVars >>
    \/ /\ ChildExits
       /\ UNCHANGED << foreground, main, storeVars >>

SpecProxy == InitProxy /\ [][NextProxy]_vars

ProxyFinished == proxy.pc \in { "done", "cancelled" }

\* the chunks handed to os.write, per source
WrittenChunks(fd) == [ i \in DOMAIN proxy.written[fd] |-> proxy.written[fd][i][1] ]

\* the chunks for which write_to_fd returned True, per source
AckedChunks(fd) ==
    LET ok == SelectSeq(proxy.written[fd], LAMBDA w : w[2])
    IN  [ i \in DOMAIN ok |-> ok[i][1] ]

C3_ForwardedEqualsReceived ==
    \A fd \in Fds :
       /\ IsPrefix(proxy.delivered[fd], Join(proxy.received[fd]))
       /\ IsPrefix(Join(AckedChunks(fd)), proxy.delivered[fd])

\* C11: once an observer has returned False, a write has been short or has
\* failed, or a read has returned EOF, the proxy loop stops: no further chunk
\* is observed and no further chunk is handed to os.write.
C11_StopEventEndsLoop ==
    (~IsNone(proxy.stop)) =>
        /\ Len(observed["stdin"]) + Len(observed["master"]) <= proxy.stop[1].obs
        /\ Len(proxy.written["stdin"]) + Len(proxy.written["master"]) <= proxy.stop[1].wr

\* C4: on every exit path taken after stdin was put into raw mode the saved
\* termios attributes are re-applied before man_in_the_middle finishes.
C4_TermiosRestored ==
    ProxyFinished => proxy.termios = proxy.termios_before

\* the proxy was cancelled after raw mode was set, and has finished
C4_Witness ==
    /\ ProxyFinished
    /\ proxy.exit_by = "cancel"
    /\ proxy.termios_before = "cbreak"
    /\ proxy.termios = "cbreak"

(***************************************************************************)
(* SpecStore: the server from its start to its shutdown, serving one       *)
(* request at a time.                                                      *)
(***************************************************************************)
InitStore ==
    /\ termsplit = TermSplitInit
    /\ foreground = ShellPid
    /\ observed = [ fd \in Fds |-> <<>> ]
    /\ emitted = <<>>
    /\ proxy = ProxyInit("cooked")
    /\ main = MainInit
    /\ StoreInit

NextStore ==
    \/ /\ ServerStarts
       /\ UNCHANGED << splitVars, proxy >>
    \/ /\ MintToken
       /\ UNCHANGED << splitVars, proxy >>
    \/ /\ EndpointReady
       /\ UNCHANGED << splitVars, proxy >>
    \/ /\ main.pc = "ready"
       /\ ShutdownServer([ main EXCEPT !.pc = "stopped" ])
       /\ UNCHANGED << splitVars, proxy >>
    \/ /\ \E c \in Clients : PostItem(c)
       /\ UNCHANGED << splitVars, proxy >>
    \/ /\ \E c \in Clients : GetItem(c)
       /\ UNCHANGED << splitVars, proxy >>
    \/ /\ \E c \in Clients : GetSearch(c)
       /\ UNCHANGED << splitVars, proxy >>
    \/ /\ \E c \in Clients : AddInsert(c)
       /\ UNCHANGED << splitVars, proxy >>
    \/ /\ \E c \in Clients : AddCount(c)
       /\ UNCHANGED << splitVars, proxy >>
    \/ /\ \E c \in Clients : GetSelect(c)
       /\ UNCHANGED << splitVars, proxy >>
    \/ /\ \E c \in Clients : GetCount(c)
       /\ UNCHANGED << splitVars, proxy >>
    \/ /\ \E c \in Clients : SearchSelect(c)
       /\ UNCHANGED << splitVars, proxy >>

SpecStore == InitStore /\ [][NextStore]_vars

\* the replies made by handler op, with their requests
Replies(op) ==
    { http[c] : c \in { d \in Clients : /\ http[d].st = "replied"
                                         /\ http[d].op = op
                                         /\ http[d].reply.handled } }

\* C5: get_item(-1) returns the most recently appended snapshot, and for
\* 0 <= i < len, get_item(i) and get_item(i - len) both return the i-th
\* appended snapshot.
C5_NegativeIndexing ==
    \A r \in Replies("get") :
       LET i == r.arg
           len == r.reply.len
       IN  r.reply.code = 200 =>
             /\ i >= 0 => r.reply.body.snapshot = appended[i + 1]
             /\ i < 0 => r.reply.body.snapshot = appended[(i + len) + 1]
             /\ i = -1 => r.reply.body.snapshot = appended[len]

\* get_item(-1) answered on a store of three snapshots
C5_Witness ==
    \E r \in Replies("get") :
       /\ r.arg = -1
       /\ r.reply.code = 200
       /\ r.reply.len = 3
       /\ r.reply.body.snapshot = appended[3]
       /\ appended[3] # appended[1]

IsSubstring(pattern, str) ==
    \E k \in 0 .. (Len(str) - Len(pattern)) :
       SubSeq(str, k + 1, k + Len(pattern)) = pattern

\* the search's condition as the claim reads it
LiteralMatch(row, pattern, search_in) ==
    LET u == IsSubstring(pattern, row.snapshot.user_view.val)
        c == IsSubstring(pattern, row.snapshot.command_view.val)
    IN  CASE search_in = "user_view" -> u
          [] search_in = "command_view" -> c
          [] OTHER -> u \/ c

\* C7: search_items returns only snapshots in which pattern is a
\* case-sensitive literal substring of the selected field(s), and every such
\* snapshot up to the limit.
C7_LiteralSubstringSearch ==
    \A r \in Replies("search") :
       LET results == r.reply.body.results
           a == r.arg
       IN  /\ \A k \in DOMAIN results :
                LiteralMatch(results[k], a.pattern, a.search_in)
           /\ \A k \in 1 .. r.reply.len :
                LiteralMatch(items[k], a.pattern, a.search_in) =>
                  \/ \E j \in DOMAIN results : results[j] = items[k]
                  \/ Len(results) >= a.limit

\* C8: the results of search_items are ordered most-recent-first and are at
\* most limit entries, for every integer limit (none for a limit below 1).
C8_RecentFirstAtMostLimit ==
    \A r \in Replies("search") :
       LET results == r.reply.body.results
           limit == r.arg.limit
       IN  /\ \A j, k \in DOMAIN results : j < k => results[j].id > results[k].id
           /\ Len(results) <= (IF limit < 0 THEN 0 ELSE limit)

ConcurrentClients == { "c1", "c2" }

\* what the concurrent clients post and ask for
ConcurrentSnapshots == { MkSnapshot(Str(<< "l", "s" >>), Str(<< "g", "r" >>)) }
ConcurrentIndexes == { 0, 0 - 1 }

ConcurrentPost(c) ==
    /\ Len(items) < MaxItems
    /\ \E snapshot \in ConcurrentSnapshots : Serve(c, "add", Some(SessionToken), snapshot)

ConcurrentGet(c) ==
    \E index \in ConcurrentIndexes : Serve(c, "get", Some(SessionToken), index)

InitStoreConcurrent ==
    /\ termsplit = TermSplitInit
    /\ foreground = ShellPid
    /\ observed = [ fd \in Fds |-> <<>> ]
    /\ emitted = <<>>
    /\ proxy = ProxyInit("cooked")
    /\ main = MainInit
    /\ listsrv = [ phase |-> "off", routes |-> FALSE ]
    /\ environ = [ BETTERHIST_AUTH |-> None ]
    /\ items = <<>>
    /\ http = [ c \in ConcurrentClients |-> HttpIdle ]
    /\ appended = <<>>

NextStoreConcurrent ==
    \/ /\ ServerStarts
       /\ UNCHANGED << splitVars, proxy >>
    \/ /\ MintToken
       /\ UNCHANGED << splitVars, proxy >>
    \/ /\ EndpointReady
       /\ UNCHANGED << splitVars, proxy >>
    \/ /\ \E c \in ConcurrentClients : ConcurrentPost(c)
       /\ UNCHANGED << splitVars, proxy >>
    \/ /\ \E c \in ConcurrentClients : ConcurrentGet(c)
       /\ UNCHANGED << splitVars, proxy >>
    \/ /\ \E c \in ConcurrentClients : AddInsert(c)
       /\ UNCHANGED << splitVars, proxy >>
    \/ /\ \E c \in ConcurrentClients : AddCount(c)
       /\ UNCHANGED << splitVars, proxy >>
    \/ /\ \E c \in ConcurrentClients : GetSelect(c)
       /\ UNCHANGED << splitVars, proxy >>
    \/ /\ \E c \in ConcurrentClients : GetCount(c)
       /\ UNCHANGED << splitVars, proxy >>

SpecStoreConcurrent == InitStoreConcurrent /\ [][NextStoreConcurrent]_vars

\* C15: store operations of concurrently running handlers are atomic: the
\* list_length an add_item returns is the number of rows right after its own
\* insert, and a 404 of get_item names a length for which its index is out
\* of range.
C15_StoreOperationsAtomic ==
    \A c \in DOMAIN http :
        (http[c].st = "replied" /\ http[c].reply.handled) =>
            /\ (http[c].op = "add") => (http[c].reply.body.list_length = http[c].own)
            /\ (http[c].op = "get" /\ http[c].reply.code = 404) =>
                  ~ (0 - http[c].reply.body.length <= http[c].arg
                     /\ http[c].arg < http[c].reply.body.length)

(***************************************************************************)
(* SpecSplit: the splitter alone, driven by any sequence of events.        *)
(***************************************************************************)
InitSplit ==
    /\ termsplit = TermSplitInit
    /\ foreground = ShellPid
    /\ observed = [ fd \in Fds |-> <<>> ]
    /\ emitted = <<>>
    /\ proxy = ProxyInit("cooked")
    /\ main = MainInit
    /\ StoreInit

SplitStdinData ==
    /\ Len(observed["stdin"]) < MaxChunks
    /\ \E data \in Chunks :
         /\ SplitterCall(on_stdin_data(termsplit, data, foreground))
         /\ observed' = [ observed EXCEPT !["stdin"] = Append(@, data) ]
    /\ UNCHANGED << foreground, proxy, main, storeVars >>

SplitMasterData ==
    /\ Len(observed["master"]) < MaxChunks
    /\ \E data \in Chunks :
         /\ SplitterCall(on_master_data(termsplit, data, foreground))
         /\ observed' = [ observed EXCEPT !["master"] = Append(@, data) ]
    /\ UNCHANGED << foreground, proxy, main, storeVars >>

SplitIdle ==
    /\ SplitterCall(on_idle(termsplit, foreground))
    /\ UNCHANGED << foreground, observed, proxy, main, storeVars >>

\* TermSplit.get: the consumer takes the oldest tuple
SplitGet ==
    /\ termsplit.queue # <<>>
    /\ termsplit' = [ termsplit EXCEPT !.queue = Tail(@) ]
    /\ UNCHANGED << foreground, observed, emitted, proxy, main, storeVars >>

\* the shell starts a command, or the command ends
ForegroundChange ==
    /\ foreground' = IF foreground = ShellPid THEN ChildPid ELSE ShellPid
    /\ UNCHANGED << termsplit, observed, emitted, proxy, main, storeVars >>

NextSplit ==
    \/ SplitStdinData
    \/ SplitMasterData
    \/ SplitIdle
    \/ SplitGet
    \/ ForegroundChange

SpecSplit == InitSplit /\ [][NextSplit]_vars

\* C1: every tuple (U, C) put on the queue was put while the splitter was in
\* WAIT_FOR_COMMAND and has a non-null U, and the pending user buffer is
\* non-null exactly when the state is WAIT_FOR_COMMAND.
C1_EmittedFromCommandWithUser ==
    /\ (~IsNone(termsplit.wait_for_user_buffer)) <=> (termsplit.state = WAIT_FOR_COMMAND)
    /\ \A i \in DOMAIN emitted :
         /\ emitted[i].from = WAIT_FOR_COMMAND
         /\ ~IsNone(emitted[i].U)
    /\ \A i \in DOMAIN termsplit.queue : ~IsNone(termsplit.queue[i][1])

\* a tuple has been emitted and the splitter is again waiting for a command
C1_Witness ==
    /\ emitted # <<>>
    /\ termsplit.state = WAIT_FOR_COMMAND
    /\ ~IsNone(termsplit.wait_for_user_buffer)

RECURSIVE TupleBytes(_)
\* U1 C1 U2 C2 ...: the bytes of the emitted tuples in emission order
TupleBytes(tuples) ==
    IF tuples = <<>> THEN <<>>
    ELSE (IF IsNone(Head(tuples).U) THEN <<>> ELSE Head(tuples).U[1])
         \o Head(tuples).C \o TupleBytes(Tail(tuples))

\* C22: the splitter neither loses, duplicates nor reorders shell output:
\* the bytes of all emitted tuples in emission order, then the pending user
\* buffer (if any), then the current buffer, are the chunks passed to
\* on_master_data in arrival order.
C22_OutputConserved ==
    TupleBytes(emitted)
      \o (IF IsNone(termsplit.wait_for_user_buffer) THEN <<>>
          ELSE termsplit.wait_for_user_buffer[1])
      \o Join(termsplit.buffer)
    = Join(observed["master"])

\* a tuple was emitted whose user epoch and command epoch both hold output
C22_Witness ==
    /\ emitted # <<>>
    /\ ~IsNone(emitted[1].U)
    /\ emitted[1].U[1] # <<>>
    /\ emitted[1].C # <<>>

\* the steps of SpecSplit that are a call of on_master_data, of
\* on_stdin_data (the chunk passed is the last one recorded) and of on_idle
\* (nothing is recorded, the foreground stays, the queue does not shrink)
IsMasterDataStep == Len(observed'["master"]) > Len(observed["master"])
IsStdinDataStep == Len(observed'["stdin"]) > Len(observed["stdin"])
IsIdleStep ==
    /\ observed' = observed
    /\ foreground' = foreground
    /\ Len(termsplit'.queue) >= Len(termsplit.queue)
MasterChunk == observed'["master"][Len(observed'["master"])]
StdinChunk == observed'["stdin"][Len(observed'["stdin"])]

\* C16: in WAIT_FOR_COMMAND on_master_data(d) appends d and then, with the
\* shell in the foreground, emits (pending user buffer, joined buffer with d)
\* and moves to WAIT_FOR_USER; with a child in the foreground it stays in
\* WAIT_FOR_COMMAND and emits nothing.
C16_MasterDataInCommandEmits ==
    [][ (termsplit.state = WAIT_FOR_COMMAND /\ IsMasterDataStep) =>
          IF foreground = ShellPid
          THEN /\ termsplit'.state = WAIT_FOR_USER
               /\ termsplit'.queue =
                    Append(termsplit.queue,
                           << termsplit.wait_for_user_buffer,
                              Join(Append(termsplit.buffer, MasterChunk)) >>)
          ELSE /\ termsplit'.state = WAIT_FOR_COMMAND
               /\ termsplit'.queue = termsplit.queue
               /\ termsplit'.buffer = Append(termsplit.buffer, MasterChunk) ]_vars

\* C17: in WAIT_FOR_USER on_stdin_data(d) moves to WAIT_FOR_COMMAND exactly
\* when d contains CR or the shell is not in the foreground, and then the
\* pending user buffer is the epoch's bytes followed by d and the buffer is
\* empty.
C17_StdinDataInUserKeepsChunk ==
    [][ (termsplit.state = WAIT_FOR_USER /\ IsStdinDataStep) =>
          /\ (termsplit'.state = WAIT_FOR_COMMAND)
                <=> (HasCR(StdinChunk) \/ foreground # ShellPid)
          /\ (termsplit'.state = WAIT_FOR_COMMAND) =>
                /\ termsplit'.wait_for_user_buffer
                     = Some(Join(termsplit.buffer) \o StdinChunk)
                /\ termsplit'.buffer = <<>> ]_vars

\* C18: in WAIT_FOR_COMMAND with the shell in the foreground on_stdin_data(d)
\* emits exactly one tuple and ends in WAIT_FOR_USER with d alone in the
\* buffer, for every d.
C18_StdinDataInCommandEmits ==
    [][ (termsplit.state = WAIT_FOR_COMMAND /\ foreground = ShellPid /\ IsStdinDataStep) =>
          /\ Len(termsplit'.queue) = Len(termsplit.queue) + 1
          /\ termsplit'.state = WAIT_FOR_USER
          /\ termsplit'.buffer = << StdinChunk >> ]_vars

\* C19: on_idle in WAIT_FOR_COMMAND with the shell in the foreground emits
\* exactly one tuple (pending user buffer, joined buffer), clears both
\* buffers and moves to WAIT_FOR_USER; otherwise it changes nothing of the
\* splitter.
C19_IdleEmitsOnlyWhenShellForeground ==
    [][ IsIdleStep =>
          IF termsplit.state = WAIT_FOR_COMMAND /\ foreground = ShellPid
          THEN /\ termsplit'.state = WAIT_FOR_USER
               /\ termsplit'.queue =
                    Append(termsplit.queue,
                           << termsplit.wait_for_user_buffer, Join(termsplit.buffer) >>)
               /\ termsplit'.buffer = <<>>
               /\ IsNone(termsplit'.wait_for_user_buffer)
               /\ Len(emitted') = Len(emitted) + 1
          ELSE /\ termsplit' = termsplit
               /\ emitted' = emitted ]_vars

\* a command epoch entered without a CR (a child was in the foreground when
\* the user typed) has received output and was emitted: the only stdin chunk
\* caused no emission, so on_idle emitted the tuple
C19_Witness ==
    /\ observed["stdin"] = << << OtherByte >> >>
    /\ Len(emitted) = 1
    /\ emitted[1].C # <<>>
    /\ termsplit.state = WAIT_FOR_USER

(***************************************************************************)
(* The session (cli.subshell): the server is brought up, the shell is      *)
(* forked, man_in_the_middle runs as middle_task with the TermSplit        *)
(* methods as observers, and the main loop takes the tuples of             *)
(* termsplit.queue through dequeue_task, renders them and appends the      *)
(* snapshot to the store.                                                  *)
(***************************************************************************)
RECURSIVE Draw(_, _, _)
\* pyte.Stream.feed on a screen wider than the data: CR moves the cursor to
\* column 0, any other byte is drawn at the cursor, which moves right; the
\* result is the width of the text on the first line
Draw(data, col, width) ==
    IF data = <<>> THEN width
    ELSE IF Head(data) = CR THEN Draw(Tail(data), 0, width)
    ELSE Draw(Tail(data), col + 1, IF col + 1 > width THEN col + 1 ELSE width)

\* the list of the non-empty lines of the screen, right-stripped
pyte_view_one(data) ==
    LET width == Draw(data, 0, 0)
    IN  List(IF width = 0 THEN <<>> ELSE << [ i \in 1 .. width |-> OtherByte ] >>)

pyte_view(user_buffer, command_buffer) ==
    << pyte_view_one(user_buffer), pyte_view_one(command_buffer) >>

\* middle_task.done()
MiddleTaskDone == proxy.pc = "done"

\* while not middle_task.done(): await asyncio.wait(..., timeout=0.1); after
\* the loop, await listsrv.shutdown()
LoopTest(m) ==
    IF MiddleTaskDone THEN [ m EXCEPT !.pc = "shutdown" ]
    ELSE [ m EXCEPT !.pc = "loop_wait" ]

\* os.get_terminal_size(subshell.stdin_fd): the size at the time of the call
os_get_terminal_size == proxy.winsize

\* process_user_command_tuple up to its first await: the size is read, the
\* rendering runs in the executor
Process(m, tuple) ==
    [ m EXCEPT !.pc = "render", !.cur = Some(tuple),
               !.geometry = Some(os_get_terminal_size) ]

\* dequeue_task.cancel() (awaiting its bool raises TypeError, swallowed),
\* then return status: status is a local that only the drain branch binds
ReturnStatus(m) ==
    LET m1 == [ m EXCEPT !.dequeue_task.st = IF @ = "pending" THEN "cancelled" ELSE @ ]
    IN  IF IsNone(m1.status)
        THEN [ m1 EXCEPT !.pc = "crashed", !.exc = "UnboundLocalError" ]
        ELSE [ m1 EXCEPT !.pc = "returned", !.ret = m1.status ]

\* the event loop runs the session's tasks: from the first await of the
\* main loop on, and not between an exception leaving cli.subshell and
\* asyncio.run cancelling the tasks
LoopRuns ==
    /\ main.pc \notin { "start", "started", "add_endpoint", "ready" }
    /\ main.pc = "crashed" => main.cancelled

\* Subshell(), TermSplit(...), the two tasks, and the loop's first await
SessionSetup ==
    /\ main.pc = "ready"
    /\ main' = [ main EXCEPT !.pc = "loop_wait",
                             !.dequeue_task = [ st |-> "pending", res |-> None ] ]
    /\ UNCHANGED << splitVars, proxy, storeVars >>

\* dequeue_task (termsplit.get()) takes the oldest tuple and is done
DequeueWakes ==
    /\ LoopRuns
    /\ main.dequeue_task.st = "pending"
    /\ termsplit.queue # <<>>
    /\ main' = [ main EXCEPT
                   !.dequeue_task = [ st |-> "done", res |-> Some(Head(termsplit.queue)) ] ]
    /\ termsplit' = [ termsplit EXCEPT !.queue = Tail(@) ]
    /\ UNCHANGED << foreground, observed, emitted, proxy, storeVars >>

\* asyncio.wait of the main loop returns (a task is done, or 0.1 s passed):
\* a dequeued tuple is processed; else, with middle_task done, the drain
\* loop runs (wait_for(..., timeout=0) cancels its get() before it starts
\* and raises TimeoutError) and status is bound; else on_idle is called
MainWaitReturns ==
    /\ main.pc = "loop_wait"
    /\ IF main.dequeue_task.st = "done"
       THEN /\ main' = Process(main, main.dequeue_task.res[1])
            /\ UNCHANGED << termsplit, emitted >>
       ELSE IF MiddleTaskDone
       THEN /\ main' = LoopTest([ main EXCEPT !.status = proxy.ret ])
            /\ UNCHANGED << termsplit, emitted >>
       ELSE /\ SplitterCall(on_idle(termsplit, foreground))
            /\ main' = LoopTest(main)
    /\ UNCHANGED << foreground, observed, proxy, storeVars >>

\* process_user_command_tuple resumes: after the rendering it builds the
\* Snapshot (pydantic validates the views) and calls add_item; after
\* add_item the loop creates a new dequeue_task and tests its condition
ProcessResumes ==
    /\ main.pc \in { "render", "add_item" }
    /\ IF main.pc = "render"
       THEN LET tuple == main.cur[1]
                views == pyte_view(tuple[1][1], tuple[2])
            IN  /\ main' = IF SnapshotValid(views[1], views[2])
                           THEN [ main EXCEPT !.pc = "add_item",
                                              !.cur = Some([ MkSnapshot(views[1], views[2])
                                                               EXCEPT !.columns = main.geometry[1].columns,
                                                                      !.lines = main.geometry[1].lines ]) ]
                           ELSE [ main EXCEPT !.pc = "crashed", !.exc = "ValidationError",
                                              !.cur = None ]
                /\ UNCHANGED << items, appended >>
       ELSE /\ items' = InsertRow(items, main.cur[1])
            /\ appended' = Append(appended, main.cur[1])
            /\ main' = LoopTest([ main EXCEPT
                                    !.cur = None,
                                    !.dequeue_task = [ st |-> "pending", res |-> None ] ])
    /\ UNCHANGED << splitVars, proxy, listsrv, environ, http >>

\* await listsrv.shutdown() returns, and the coroutine ends
SessionShutdown ==
    /\ main.pc = "shutdown"
    /\ ShutdownServer(ReturnStatus(main))
    /\ UNCHANGED << splitVars, proxy >>

\* an exception left cli.subshell: asyncio.run cancels the tasks that are
\* left (middle_task, dequeue_task, the server) and runs them to their end
AsyncioRunCancels ==
    /\ main.pc = "crashed"
    /\ ~main.cancelled
    /\ main' = [ main EXCEPT !.cancelled = TRUE,
                             !.dequeue_task.st = IF @ = "pending" THEN "cancelled" ELSE @ ]
    /\ listsrv' = [ listsrv EXCEPT !.phase = "down" ]
    /\ IF proxy.pc \in { "wait", "write_stdin", "write_master", "reap" }
       THEN CancelProxy
       ELSE UNCHANGED << proxy, observed, termsplit, emitted >>
    /\ UNCHANGED << foreground, environ, items, http, appended >>

\* the user resizes the parent terminal and the SIGWINCH handler
\* Subshell.on_resize gives the master the parent's new size
on_resize ==
    /\ LoopRuns
    /\ proxy.resizes < MaxResizes
    /\ \E g \in Geometries \ { proxy.winsize } :
         EnvStep([ proxy EXCEPT !.winsize = g, !.pty_winsize = g, !.resizes = @ + 1 ])
    /\ UNCHANGED << foreground, main, storeVars >>

\* the observers of cli.py return what the TermSplit methods return: True
SessionObservers == { "true" }

(***************************************************************************)
(* SpecSession: a session from its start to its end.                       *)
(***************************************************************************)
InitSession ==
    /\ termsplit = TermSplitInit
    /\ foreground = ShellPid
    /\ observed = [ fd \in Fds |-> <<>> ]
    /\ emitted = <<>>
    /\ proxy = ProxyInit("cooked")
    /\ main = MainInit
    /\ StoreInit

NextSession ==
    \/ /\ ServerStarts
       /\ UNCHANGED << splitVars, proxy >>
    \/ /\ MintToken
       /\ UNCHANGED << splitVars, proxy >>
    \/ /\ EndpointReady
       /\ UNCHANGED << splitVars, proxy >>
    \/ SessionSetup
    \/ DequeueWakes
    \/ MainWaitReturns
    \/ ProcessResumes
    \/ SessionShutdown
    \/ AsyncioRunCancels
    \/ /\ LoopRuns
       /\ Enter(TRUE)
       /\ UNCHANGED << foreground, main, storeVars >>
    \/ /\ LoopRuns
       /\ WaitReturns(SessionObservers, TRUE)
       /\ UNCHANGED << foreground, main, storeVars >>
    \/ /\ LoopRuns
       /\ \E fd \in Fds : WriteReturns(fd, SessionObservers, TRUE)
       /\ UNCHANGED << foreground, main, storeVars >>
    \/ /\ LoopRuns
       /\ CleanupResumes
       /\ UNCHANGED << foreground, main, storeVars >>
    \/ /\ LoopRuns
       /\ ReapReturns
       /\ UNCHANGED << foreground, main, storeVars >>
    \/ /\ LoopRuns
       /\ Len(proxy.received["stdin"]) + Len(proxy.received["master"]) < MaxSessionChunks
       /\ \E fd \in Fds : Ready(fd)
       /\ UNCHANGED << foreground, main, storeVars >>
    \/ /\ LoopRuns
       /\ \E fd \in Fds : ReadFails(fd)
       /\ UNCHANGED << foreground, main, storeVars >>
    \/ /\ LoopRuns
       /\ \E fd \in Fds : ReadEOF(fd)
       /\ UNCHANGED << foreground, main, storeVars >>
    \/ /\ LoopRuns
       /\ \E fd \in Fds : TaskWakes(fd)
       /\ UNCHANGED << foreground, main, storeVars >>
    \/ /\ ChildExits
       /\ UNCHANGED << foreground, main, storeVars >>
    \/ ForegroundChange
    \/ on_resize

SpecSession == InitSession /\ [][NextSession]_vars

\* C10: a session started with no subcommand ends only by returning, never
\* by an exception, and what it returns is the exit status of the child,
\* which man_in_the_middle has reaped.
C10_SessionReturnsChildStatus ==
    /\ main.exc = "none"
    /\ (main.pc = "returned") =>
         /\ proxy.child.st = "reaped"
         /\ main.ret = Some(proxy.child.status)

\* the session has ended: cli.subshell returned or an exception left it
SessionEnded == main.pc \in { "returned", "crashed" }

\* scenario S1 in the model's bytes: the line typed with its CR, and what
\* the shell prints for it
S1Stdin == << OtherByte, CR >>
S1Output == << OtherByte >>

\* S1 has happened: the line was typed, the output arrived during the
\* command epoch, which was emitted as one tuple, and the shell has exited
S1Happened ==
    /\ observed["stdin"] = << S1Stdin >>
    /\ observed["master"] = << S1Output >>
    /\ Len(emitted) = 1
    /\ emitted[1].C = S1Output
    /\ proxy.child.st = "reaped"
    /\ SessionEnded

\* C12: after scenario S1 the store holds exactly one snapshot, whose
\* user_view shows the typed line and whose command_view shows the output.
C12_ScenarioS1OneSnapshot ==
    S1Happened =>
        /\ Len(items) = 1
        /\ items[1].snapshot.user_view.val # <<>>
        /\ items[1].snapshot.command_view.val # <<>>

\* C21: the geometry a tuple is rendered at, and that its snapshot records,
\* is the one the terminal had when the splitter emitted the tuple, also when
\* the terminal was resized between the emission and the processing.
C21_GeometryAtEmission ==
    (main.pc = "render") =>
        main.geometry = Some(emitted[Len(emitted) - Len(termsplit.queue)].geom)

\* C13: an error in the snapshot pipeline (rendering, building the Snapshot)
\* never ends the session's main loop and never stops the proxy: no
\* pipeline exception leaves cli.subshell, and man_in_the_middle is not
\* cancelled because of one.
C13_PipelineErrorNotFatal ==
    /\ main.exc # "ValidationError"
    /\ main.cancelled => proxy.exit_by # "cancel"

\* C20: when the session has ended, every tuple the splitter emitted has
\* been dequeued and its snapshot appended to the store: none is left in the
\* queue or in dequeue_task, none was dropped.
C20_EmittedTuplesProcessed ==
    SessionEnded =>
        /\ termsplit.queue = <<>>
        /\ main.dequeue_task.st # "done"
        /\ Len(appended) = Len(emitted)

====
